---- MODULE Spec2Model ----
(***************************************************************************)
(* Model of src/main.py, create_google_doc_endpoint: the per-page          *)
(* compilation of a structural model into offset-addressed edit commands,  *)
(* the submission of each page's batch to the remote document and the      *)
(* re-reading of the document's end offset.                                *)
(*                                                                         *)
(* Python strings are sequences of one-character strings, so that          *)
(* replace(), strip(), upper() and len() are computed, not assumed.        *)
(***************************************************************************)
EXTENDS Integers, Sequences, FiniteSets, TLC

\* ------------------------------------------------------------------ bounds
MaxPages == 2
MaxElems == 2

\* ----------------------------------------------------------- Python strings
NL == "\n"
WhiteSpace == {" ", NL, "\t"}
Nbsp == <<"&", "n", "b", "s", "p", ";">>

LowerAlpha == <<"a","b","c","d","e","f","g","h","i","j","k","l","m",
                "n","o","p","q","r","s","t","u","v","w","x","y","z">>
UpperAlpha == <<"A","B","C","D","E","F","G","H","I","J","K","L","M",
                "N","O","P","Q","R","S","T","U","V","W","X","Y","Z">>

UpperChar(c) ==
    IF \E k \in 1..Len(LowerAlpha) : LowerAlpha[k] = c
    THEN UpperAlpha[CHOOSE k \in 1..Len(LowerAlpha) : LowerAlpha[k] = c]
    ELSE c

\* str.upper()
Upper(s) == [k \in 1..Len(s) |-> UpperChar(s[k])]

RECURSIVE Replace(_, _, _)
\* str.replace(old, new): left to right, non-overlapping
Replace(s, old, new) ==
    IF Len(s) < Len(old) THEN s
    ELSE IF SubSeq(s, 1, Len(old)) = old
         THEN new \o Replace(SubSeq(s, Len(old) + 1, Len(s)), old, new)
         ELSE <<Head(s)>> \o Replace(Tail(s), old, new)

RECURSIVE LStrip(_)
LStrip(s) == IF s # <<>> /\ Head(s) \in WhiteSpace THEN LStrip(Tail(s)) ELSE s

RECURSIVE RStrip(_)
RStrip(s) ==
    IF s # <<>> /\ s[Len(s)] \in WhiteSpace THEN RStrip(SubSeq(s, 1, Len(s) - 1)) ELSE s

\* str.strip()
Strip(s) == RStrip(LStrip(s))

\* dict.get(key, default)
Get(el, key, default) == IF key \in el.keys THEN el[key] ELSE default

\* ------------------------------------------------------------ md tokens
Tok(t, c) == [type |-> t, content |-> c]

TrOpen == Tok("tr_open", <<>>)
TrClose == Tok("tr_close", <<>>)
Inline(c) == Tok("inline", c)
Other(t) == Tok(t, <<>>)

\* One step of the token loop. current_row is a list object; alias is the set
\* of positions of rows_data that hold that same object (rows_data.append
\* stores a reference), so a later append to current_row shows in them.
TokenStep(d, token) ==
    IF token.type = "tr_open"
    THEN [d EXCEPT !.current_row = <<>>, !.alias = {}]
    ELSE IF token.type = "tr_close"
    THEN [d EXCEPT !.rows_data = Append(d.rows_data, d.current_row),
                   !.alias = d.alias \cup {Len(d.rows_data) + 1}]
    ELSE IF token.type = "inline"
    THEN LET row == Append(d.current_row, token.content)
         IN  [d EXCEPT !.current_row = row,
                       !.rows_data = [j \in 1..Len(d.rows_data) |->
                                        IF j \in d.alias THEN row ELSE d.rows_data[j]]]
    ELSE d

RECURSIVE TokenLoop(_, _)
TokenLoop(d, tokens) ==
    IF tokens = <<>> THEN d ELSE TokenLoop(TokenStep(d, Head(tokens)), Tail(tokens))

RECURSIVE NonEmptyRows(_)
\* rows_data = [r for r in rows_data if r]
NonEmptyRows(rows) ==
    IF rows = <<>> THEN <<>>
    ELSE IF Head(rows) # <<>> THEN <<Head(rows)>> \o NonEmptyRows(Tail(rows))
         ELSE NonEmptyRows(Tail(rows))

\* the grid of a table element, from the parser's token stream
Decompose(tokens) ==
    NonEmptyRows(TokenLoop([rows_data |-> <<>>, current_row |-> <<>>, alias |-> {}],
                           tokens).rows_data)

MaxOf(S) == CHOOSE x \in S : \A y \in S : y <= x

\* max(len(r) for r in rows_data) if rows_data else 0
NumCols(rows_data) ==
    IF rows_data = <<>> THEN 0
    ELSE MaxOf({Len(rows_data[r]) : r \in 1..Len(rows_data)})

\* ------------------------------------------------------------ edit commands
InsertText(text, index) == [op |-> "insertText", text |-> text, index |-> index]
InsertTable(rows, columns, index) ==
    [op |-> "insertTable", rows |-> rows, columns |-> columns, index |-> index]
InsertPageBreak(index) == [op |-> "insertPageBreak", index |-> index]
UpdateParagraphStyle(style_request) ==
    [op |-> "updateParagraphStyle",
     startIndex |-> style_request.startIndex, endIndex |-> style_request.endIndex,
     paragraphStyle |-> style_request.paragraphStyle, fields |-> style_request.fields]
UpdateTextStyle(startIndex, endIndex) ==
    [op |-> "updateTextStyle", startIndex |-> startIndex, endIndex |-> endIndex,
     fontSize |-> 10, fields |-> <<"fontSize">>]

Reverse(s) == [k \in 1..Len(s) |-> s[Len(s) + 1 - k]]

\* a cell address whose row stride forgets the row marker
CellLocationNarrow(table_start_index, num_cols, r, c) ==
    table_start_index + 4 + r * (num_cols * 2) + c * 2

\* cell_location, rows and columns counted from 0
CellLocation(table_start_index, num_cols, r, c) ==
    table_start_index + 4 + r * (num_cols * 2 + 1) + c * 2

RECURSIVE CellRequestsOfRow(_, _, _, _, _)
CellRequestsOfRow(table_start_index, num_cols, r, row, c) ==
    IF c >= Len(row) THEN <<>>
    ELSE (IF row[c + 1] # <<>>
          THEN <<InsertText(row[c + 1], CellLocation(table_start_index, num_cols, r, c))>>
          ELSE <<>>)
         \o CellRequestsOfRow(table_start_index, num_cols, r, row, c + 1)

RECURSIVE CellRequests(_, _, _, _)
\* cell_requests, in row-major order
CellRequests(table_start_index, num_cols, rows_data, r) ==
    IF r >= Len(rows_data) THEN <<>>
    ELSE CellRequestsOfRow(table_start_index, num_cols, r, rows_data[r + 1], 0)
         \o CellRequests(table_start_index, num_cols, rows_data, r + 1)

\* the cell inserts in row-major order
EmitCellsForward(cell_requests) == cell_requests

\* the commands a table emits: insertTable, then the cell inserts reversed
EmitCells(cell_requests) == Reverse(cell_requests)

\* st = [requests, origin, current_index]; origin[j] is the position in the
\* page of the element that emitted requests[j] (0 for the page's own commands)
Emit(st, reqs, k) ==
    [st EXCEPT !.requests = st.requests \o reqs,
               !.origin = st.origin \o [j \in 1..Len(reqs) |-> k]]

\* what follows a table's commands: the cursor is left where it was
AfterTable(st, num_rows, num_cols) == st

\* a table compiled without the guards for an empty grid
CompileTableUnguarded(st, tokens, k) ==
    LET rows_data == Decompose(tokens)
        num_rows == Len(rows_data)
        num_cols == NumCols(rows_data)
        table_start_index == st.current_index
    IN  AfterTable(
          Emit(st,
               <<InsertTable(num_rows, num_cols, st.current_index)>>
               \o EmitCells(CellRequests(table_start_index, num_cols, rows_data, 0)),
               k),
          num_rows, num_cols)


CompileTable(st, tokens, k) ==
    LET rows_data == Decompose(tokens)
        num_rows == Len(rows_data)
        num_cols == NumCols(rows_data)
        table_start_index == st.current_index
    IN  IF rows_data = <<>> THEN st
        ELSE IF num_cols = 0 THEN st
        ELSE AfterTable(
               Emit(st,
                    <<InsertTable(num_rows, num_cols, st.current_index)>>
                    \o EmitCells(CellRequests(table_start_index, num_cols, rows_data, 0)),
                    k),
               num_rows, num_cols)

spacing_map == [small |-> 8, medium |-> 12, large |-> 16]

sLeft == <<"l","e","f","t">>
sLEFT == Upper(sLeft)
sRIGHT == <<"R","I","G","H","T">>
sSTART == <<"S","T","A","R","T">>
sCENTER == <<"C","E","N","T","E","R">>
sEND == <<"E","N","D">>
sJUSTIFIED == <<"J","U","S","T","I","F","I","E","D">>

\* an alignment mapping without RIGHT -> END
AlignOfNoRight(element) ==
    LET align == Upper(Get(element, "align", sLeft))
    IN  IF align = sLEFT THEN sSTART ELSE align

\* align = element.get('align', 'left').upper(); LEFT -> START, RIGHT -> END
AlignOf(element) ==
    LET align == Upper(Get(element, "align", sLeft))
    IN  IF align = sLEFT THEN sSTART
        ELSE IF align = sRIGHT THEN sEND
        ELSE align

\* an alignment test that leaves the default out
AlignAcceptedNonDefault(align) == align \in {sCENTER, sEND, sJUSTIFIED}


AlignAccepted(align) == align \in {sSTART, sCENTER, sEND, sJUSTIFIED}

SetField(sr, name, value) ==
    [sr EXCEPT !.paragraphStyle = (name :> value) @@ sr.paragraphStyle,
               !.fields = Append(sr.fields, name)]

\* the style_request of a heading or paragraph over [startIndex, endIndex)
StyleRequest(element, startIndex, endIndex) ==
    LET sr0 == [startIndex |-> startIndex, endIndex |-> endIndex,
                paragraphStyle |-> <<>>, fields |-> <<>>]
        sr1 == IF Get(element, "type", "None") = "heading"
               THEN SetField(sr0, "namedStyleType", <<"HEADING_", Get(element, "level", 1)>>)
               ELSE sr0
        align == AlignOf(element)
        sr2 == IF AlignAccepted(align) THEN SetField(sr1, "alignment", align) ELSE sr1
        spacing_key == Get(element, "spacingAfter", "None")
        sr3 == IF spacing_key \in DOMAIN spacing_map
               THEN SetField(sr2, "spaceBelow", spacing_map[spacing_key])
               ELSE sr2
    IN  sr3

\* a text element whose cursor advance forgets the trailing newline
CompileTextShort(st, element, content, k) ==
    LET text_to_insert == content \o <<NL>>
        style_request == StyleRequest(element, st.current_index,
                                      st.current_index + Len(text_to_insert))
        st1 == Emit(st,
                    <<InsertText(text_to_insert, st.current_index)>>
                    \o (IF style_request.fields # <<>>
                        THEN <<UpdateParagraphStyle(style_request)>> ELSE <<>>)
                    \o <<UpdateTextStyle(st.current_index,
                                         st.current_index + Len(text_to_insert))>>,
                    k)
    IN  [st1 EXCEPT !.current_index = st.current_index + Len(content)]


CompileText(st, element, content, k) ==
    LET text_to_insert == content \o <<NL>>
        style_request == StyleRequest(element, st.current_index,
                                      st.current_index + Len(text_to_insert))
        st1 == Emit(st,
                    <<InsertText(text_to_insert, st.current_index)>>
                    \o (IF style_request.fields # <<>>
                        THEN <<UpdateParagraphStyle(style_request)>> ELSE <<>>)
                    \o <<UpdateTextStyle(st.current_index,
                                         st.current_index + Len(text_to_insert))>>,
                    k)
    IN  [st1 EXCEPT !.current_index = st.current_index + Len(text_to_insert)]

\* content = element.get('content', '').replace('&nbsp;', ' ')
Normalize(element) == Replace(Get(element, "content", <<>>), Nbsp, <<" ">>)

\* a skip of the empty string alone
IsBlankEmptyOnly(content) == content = <<>>

\* if not content.strip(): continue
IsBlank(content) == Strip(content) = <<>>

\* md.parse(content): the parser is a library; an element carries the token
\* stream the parser yields for its content
MdParse(element, content) == element.md

\* the body of "for element in page.structure", element at position k
CompileElement(st, element, k) ==
    LET content == Normalize(element)
    IN  IF IsBlank(content) THEN st
        ELSE IF Get(element, "type", "None") = "table"
             THEN CompileTable(st, MdParse(element, content), k)
             ELSE CompileText(st, element, content, k)

RECURSIVE CompileElements(_, _, _)
CompileElements(st, structure, k) ==
    IF k > Len(structure) THEN st
    ELSE CompileElements(CompileElement(st, structure[k], k), structure, k + 1)

\* a page break placed one past the cursor
PageBreakAhead(st) == Emit(st, <<InsertPageBreak(st.current_index + 1)>>, 0)

\* the insert-page-break of a page that is not the last one
PageBreak(st) == Emit(st, <<InsertPageBreak(st.current_index)>>, 0)

\* a page compiled without the leading newline when nothing follows it
CompilePageBare(cursor, structure, isLast) ==
    LET st0 == [requests |-> <<InsertText(<<NL>>, cursor)>>, origin |-> <<0>>,
                current_index |-> cursor + 1]
        st1 == CompileElements(st0, structure, 1)
        st2 == IF Len(st1.requests) = 1
               THEN [requests |-> <<>>, origin |-> <<>>, current_index |-> cursor]
               ELSE st1
    IN  IF ~isLast THEN PageBreak(st2) ELSE st2

\* the body of "for i, page in enumerate(request.pages)" up to the submit
CompilePage(cursor, structure, isLast) ==
    LET st0 == [requests |-> <<InsertText(<<NL>>, cursor)>>, origin |-> <<0>>,
                current_index |-> cursor + 1]
        st1 == CompileElements(st0, structure, 1)
    IN  IF ~isLast THEN PageBreak(st1) ELSE st1

\* ------------------------------------------------------------ the remote document
\* remote[p] is the character at index p of the document body (index 0, the
\* section break, is not held). A new document is one empty paragraph.
NewDocument == <<NL>>

InsertAt(doc, index, s) ==
    SubSeq(doc, 1, index - 1) \o s \o SubSeq(doc, index, Len(doc))

RECURSIVE Repeat(_, _)
Repeat(s, n) == IF n <= 0 THEN <<>> ELSE s \o Repeat(s, n - 1)

\* what an insertTable puts at its index: a newline, the table marker, and for
\* each row a row marker and, per cell, a cell marker and the cell's empty
\* paragraph; the first cell's paragraph is then at index + 4
TableLayout(rows, columns) ==
    <<NL, "[table]">> \o Repeat(<<"[row]">> \o Repeat(<<"[cell]", NL>>, columns), rows)

\* an insertion is addressed inside the body: 1 <= index < end index
ValidRequest(doc, r) ==
    IF r.op \in {"insertText", "insertTable", "insertPageBreak"}
    THEN r.index >= 1 /\ r.index <= Len(doc)
    ELSE r.startIndex >= 1 /\ r.startIndex < r.endIndex /\ r.endIndex <= Len(doc) + 1

\* one command applied: an insertion shifts everything at or after its index
ApplyRequest(doc, r) ==
    IF r.op = "insertText" THEN InsertAt(doc, r.index, r.text)
    ELSE IF r.op = "insertTable" THEN InsertAt(doc, r.index, TableLayout(r.rows, r.columns))
    ELSE IF r.op = "insertPageBreak" THEN InsertAt(doc, r.index, <<"[pagebreak]">>)
    ELSE doc

RECURSIVE ApplyBatch(_, _)
\* batchUpdate applies the commands in the order given
ApplyBatch(doc, reqs) ==
    IF reqs = <<>> THEN doc ELSE ApplyBatch(ApplyRequest(doc, Head(reqs)), Tail(reqs))

RECURSIVE ValidBatch(_, _)
ValidBatch(doc, reqs) ==
    IF reqs = <<>> THEN TRUE
    ELSE ValidRequest(doc, Head(reqs))
         /\ ValidBatch(ApplyRequest(doc, Head(reqs)), Tail(reqs))

\* doc_content['body']['content'][-1]['endIndex']
LastEndIndex(doc) == Len(doc) + 1

\* the cursor read back from the remote document
EndOffset(doc) == LastEndIndex(doc) - 1

HasTable(reqs) == \E j \in 1..Len(reqs) : reqs[j].op = "insertTable"

\* ------------------------------------------------------------ the requests
sHello == <<"H","e","l","l","o">>
sTitle == <<"T","i","t","l","e">>
sAB == <<"A","B">>
sA == <<"A">>
sB == <<"B">>
sC == <<"C">>
sD == <<"D">>
sE == <<"E">>

Element(keys, type, content, level, align, spacingAfter, md) ==
    [keys |-> keys, type |-> type, content |-> content, level |-> level,
     align |-> align, spacingAfter |-> spacingAfter, md |-> md]

Paragraph(content) ==
    Element({"type", "content"}, "paragraph", content, 0, <<>>, "", <<>>)

Table(content, md) == Element({"type", "content"}, "table", content, 0, <<>>, "", md)

\* | A | B | / |---|---| / | C | D |
mdABCD ==
    <<Other("table_open"), Other("thead_open"),
      TrOpen, Other("th_open"), Inline(sA), Other("th_close"),
              Other("th_open"), Inline(sB), Other("th_close"), TrClose,
      Other("thead_close"), Other("tbody_open"),
      TrOpen, Other("td_open"), Inline(sC), Other("td_close"),
              Other("td_open"), Inline(sD), Other("td_close"), TrClose,
      Other("tbody_close"), Other("table_close")>>

\* | A | B | / |---|---| / |  | D | / (blank line) / E
mdTrail ==
    <<Other("table_open"), Other("thead_open"),
      TrOpen, Other("th_open"), Inline(sA), Other("th_close"),
              Other("th_open"), Inline(sB), Other("th_close"), TrClose,
      Other("thead_close"), Other("tbody_open"),
      TrOpen, Other("td_open"), Inline(<<>>), Other("td_close"),
              Other("td_open"), Inline(sD), Other("td_close"), TrClose,
      Other("tbody_close"), Other("table_close"),
      Other("paragraph_open"), Inline(sE), Other("paragraph_close")>>

\* E / (blank line) / | A | / |---|
mdLead ==
    <<Other("paragraph_open"), Inline(sE), Other("paragraph_close"),
      Other("table_open"), Other("thead_open"),
      TrOpen, Other("th_open"), Inline(sA), Other("th_close"), TrClose,
      Other("thead_close"), Other("table_close")>>

\* E: no table in the text
mdNone == <<Other("paragraph_open"), Inline(sE), Other("paragraph_close")>>

\* a row without cells
mdEmptyRow == <<Other("table_open"), TrOpen, TrClose, Other("table_close")>>

tABCD == Table(<<"|","A","|","B","|",NL,"|","-","|","-","|",NL,"|","C","|","D","|">>, mdABCD)
tTrail ==
    Table(<<"|","A","|","B","|",NL,"|","-","|","-","|",NL,"|","|","D","|",NL,NL,"E">>,
          mdTrail)
tLead == Table(<<"E",NL,NL,"|","A","|",NL,"|","-","|">>, mdLead)
tNone == Table(sE, mdNone)
tEmptyRow == Table(<<"|","|">>, mdEmptyRow)
tBlank == Table(<<" ", NL>>, <<>>)

pAB == Paragraph(sAB)
pNbsp == Paragraph(Nbsp \o <<" ">> \o Nbsp)

\* the elements pages of several elements are made of
CoreElements == {pAB, pNbsp, tABCD}

AlignValues ==
    {sLeft, <<"r","i","g","h","t">>, <<"c","e","n","t","e","r">>,
     <<"j","u","s","t","i","f","i","e","d">>, <<"s","t","a","r","t">>,
     <<"C","e","n","t","e","r">>, <<"m","i","d","d","l","e">>}

SpacingValues == {"small", "medium", "large", "none"}

\* headings and paragraphs with every combination of the optional keys
StyledElements ==
    { Element({"type", "content"} \cup lk \cup ak \cup sk,
              t, IF t = "heading" THEN sTitle ELSE sHello,
              IF lk = {} THEN 0 ELSE 2, a, sp, <<>>) :
        t \in {"heading", "paragraph"},
        lk \in {{}, {"level"}},
        a \in AlignValues \cup {<<>>},
        sp \in SpacingValues \cup {""},
        ak \in {{}, {"align"}},
        sk \in {{}, {"spacingAfter"}} }

WellFormed(e) ==
    /\ ("align" \in e.keys) = (e.align # <<>>)
    /\ ("spacingAfter" \in e.keys) = (e.spacingAfter # "")
    /\ ("level" \in e.keys) => e.type = "heading"

\* elements that make a page on their own
SingleElements ==
    {tTrail, tLead, tNone, tEmptyRow, tBlank,
          Paragraph(<<>>), Paragraph(<<" ", "\t", NL>>), Paragraph(Nbsp),
          Paragraph(sA \o Nbsp \o sB),
          Element({"type"}, "heading", <<>>, 0, <<>>, "", <<>>),
          Element({"content"}, "", sAB, 0, <<>>, "", <<>>)}

SeqsUpTo(S, n) == UNION {[1..k -> S] : k \in 0..n}

\* the structures a page of the request may hold; the styled elements are
\* tried on the first page
PageStructures(n) ==
    SeqsUpTo(CoreElements, MaxElems) \cup {<<e>> : e \in SingleElements}
    \cup (IF n = 0 THEN {<<e>> : e \in {s \in StyledElements : WellFormed(s)}} ELSE {})

\* ------------------------------------------------------------ the endpoint
VARIABLES
    pc,             \* where create_google_doc_endpoint stands
    numPages,       \* len(request.pages)
    i,              \* the loop index, from 0
    page,           \* page.structure of the page being handled
    requests,       \* the page's batch
    origin,         \* for each command of the batch, the element that emitted it
    current_index,  \* the cursor
    remote,         \* the remote document
    response,       \* what the caller gets
    hist            \* per page handled: what was compiled and which calls were made

\* the state of process_and_stream_pdf
VARIABLES
    spc,            \* where process_and_stream_pdf stands
    total_pages,    \* len(pdf_document)
    batch_start,    \* the loop variable i of the batch loop
    tasks,          \* per page_num, the state of its process_single_page_task
    doneOrder,      \* the page_nums of the batch in hand, in order of completion
    all_pages_data, \* the results gathered so far
    events          \* the events yielded so far

docVars == <<pc, numPages, i, page, requests, origin, current_index, remote, response, hist>>
streamVars == <<spc, total_pages, batch_start, tasks, doneOrder, all_pages_data, events>>
vars == <<docVars, streamVars>>

\* no PDF is being processed
StreamIdle ==
    /\ spc = "idle"
    /\ total_pages = 0
    /\ batch_start = 0
    /\ tasks = <<>>
    /\ doneOrder = <<>>
    /\ all_pages_data = <<>>
    /\ events = <<>>

Init ==
    /\ pc = "create"
    /\ numPages \in 0..MaxPages
    /\ i = 0
    /\ page = <<>>
    /\ requests = <<>>
    /\ origin = <<>>
    /\ current_index = 0
    /\ remote = <<>>
    /\ response = "none"
    /\ hist = <<>>
    /\ StreamIdle

\* a handler that swallows the failure and goes on with the next page
OnErrorContinue ==
    /\ pc' = "loop"
    /\ i' = i + 1
    /\ UNCHANGED <<numPages, page, requests, origin, current_index, remote, response>>

\* except HttpError / except Exception: the request ends with an HTTPException
OnError ==
    /\ pc' = "error"
    /\ response' = "HTTPException"
    /\ UNCHANGED <<numPages, i, page, requests, origin, current_index, remote>>

\* documents().create(...).execute(); current_index = 1
CreateOk ==
    /\ pc = "create"
    /\ remote' = NewDocument
    /\ current_index' = 1
    /\ pc' = "loop"
    /\ UNCHANGED <<numPages, i, page, requests, origin, response, hist>>
    /\ UNCHANGED streamVars

CreateFail ==
    /\ pc = "create"
    /\ OnError
    /\ UNCHANGED hist
    /\ UNCHANGED streamVars

\* one pass of the page loop up to the submit, for the next page of the request
Compile ==
    /\ pc = "loop"
    /\ i < numPages
    /\ \E structure \in PageStructures(i) :
         LET st == CompilePage(current_index, structure, ~(i < numPages - 1))
         IN  /\ page' = structure
             /\ requests' = st.requests
             /\ origin' = st.origin
             /\ current_index' = st.current_index
             /\ hist' = Append(hist, [table |-> HasTable(st.requests),
                                      start |-> current_index,
                                      local |-> st.current_index,
                                      updates |-> 0, gets |-> 0, failed |-> FALSE,
                                      endAfter |-> 0])
    /\ pc' = "submit"
    /\ UNCHANGED <<numPages, i, remote, response>>
    /\ UNCHANGED streamVars

\* if requests:
Submits(reqs) == reqs # <<>>

\* the query made only after a batch with a table
AfterSubmitTableOnly(reqs) == IF HasTable(reqs) THEN "get" ELSE "loop"

\* what follows a batchUpdate that returned: the documents().get of line 298
AfterSubmit(reqs) == "get"

\* a resync that keeps the locally tracked cursor
ResyncKeepLocal(local, doc) == local

\* current_index = doc_content['body']['content'][-1]['endIndex'] - 1
Resync(local, doc) == LastEndIndex(doc) - 1

\* documents().batchUpdate(...).execute() returns
BatchUpdateOk ==
    /\ pc = "submit"
    /\ IF Submits(requests)
       THEN /\ ValidBatch(remote, requests)
            /\ remote' = ApplyBatch(remote, requests)
            /\ hist' = [hist EXCEPT ![Len(hist)].updates = @ + 1,
                                    ![Len(hist)].endAfter = EndOffset(remote')]
            /\ IF AfterSubmit(requests) = "get"
               THEN pc' = "get" /\ UNCHANGED i
               ELSE pc' = "loop" /\ i' = i + 1
       ELSE /\ pc' = "loop"
            /\ i' = i + 1
            /\ UNCHANGED <<remote, hist>>
    /\ UNCHANGED <<numPages, page, requests, origin, current_index, response>>
    /\ UNCHANGED streamVars

\* documents().batchUpdate(...).execute() raises; the batch is not applied
BatchUpdateFail ==
    /\ pc = "submit"
    /\ Submits(requests)
    /\ hist' = [hist EXCEPT ![Len(hist)].updates = @ + 1, ![Len(hist)].failed = TRUE]
    /\ OnError
    /\ UNCHANGED streamVars

\* documents().get(...).execute() returns; the cursor is read back
GetOk ==
    /\ pc = "get"
    /\ current_index' = Resync(current_index, remote)
    /\ hist' = [hist EXCEPT ![Len(hist)].gets = @ + 1]
    /\ i' = i + 1
    /\ pc' = "loop"
    /\ UNCHANGED <<numPages, page, requests, origin, remote, response>>
    /\ UNCHANGED streamVars

\* documents().get(...).execute() raises
GetFail ==
    /\ pc = "get"
    /\ hist' = [hist EXCEPT ![Len(hist)].gets = @ + 1, ![Len(hist)].failed = TRUE]
    /\ OnError
    /\ UNCHANGED streamVars

\* a return reached inside the page loop
ReturnInLoop ==
    /\ pc = "loop"
    /\ pc' = "done"
    /\ response' = "documentUrl"
    /\ UNCHANGED <<numPages, i, page, requests, origin, current_index, remote, hist>>
    /\ UNCHANGED streamVars

\* return JSONResponse(content={"documentUrl": ...})
Return ==
    /\ pc = "loop"
    /\ i >= numPages
    /\ pc' = "done"
    /\ response' = "documentUrl"
    /\ UNCHANGED <<numPages, i, page, requests, origin, current_index, remote, hist>>
    /\ UNCHANGED streamVars

Next ==
    \/ CreateOk
    \/ CreateFail
    \/ Compile
    \/ BatchUpdateOk
    \/ BatchUpdateFail
    \/ GetOk
    \/ GetFail
    \/ Return

Spec == Init /\ [][Next]_vars

\* ------------------------------------------------------------ properties
\* hist[k] describes page k; the last entry is the page in hand, whose batch is
\* requests and whose structure is page
Handled == 1..Len(hist)
Applied(k) == hist[k].updates = 1 /\ ~(hist[k].failed /\ hist[k].gets = 0)
Completed(k) == k < Len(hist) \/ (k = Len(hist) /\ pc \in {"loop", "done"})
Commands == 1..Len(requests)
CommandsOf(k) == {j \in Commands : origin[j] = k}
IsTable(e) == Get(e, "type", "None") = "table"
AllWhite(s) == \A n \in 1..Len(s) : s[n] \in WhiteSpace

\* C1: when page k (not the last) emitted an insert-table, the cursor of the
\* first command of page k+1 is the end offset the remote document has after
\* page k's batch, and not the cursor held locally when that batch was submitted
C1_CursorFromRemoteAfterTable ==
    \A k \in Handled :
        (k < Len(hist) /\ hist[k].table) =>
            /\ hist[k + 1].start = hist[k].endAfter
            /\ hist[k + 1].start # hist[k].local
            /\ (k + 1 = Len(hist) => requests[1].index = hist[k].endAfter)

C1_Witness ==
    /\ pc = "submit"
    /\ Len(hist) = 2
    /\ hist[1].table
    /\ requests[1] = InsertText(<<NL>>, hist[1].endAfter)
    /\ hist[1].endAfter > hist[1].local

\* C2 as claimed: the end-offset query is made once for a page whose batch had
\* an insert-table and not at all for a page whose batch had none, the next
\* page then starting from the locally tracked cursor
C2_QueryOnlyAfterTable ==
    \A k \in Handled :
        Completed(k) =>
            /\ hist[k].gets = (IF hist[k].table THEN 1 ELSE 0)
            /\ (~hist[k].table /\ k < Len(hist)) => hist[k + 1].start = hist[k].local

\* C2 amended: the end-offset query is made exactly once for every page, with
\* or without an insert-table, after the page's submit has returned, and the
\* next page starts from the offset it reports
C2_QueryAfterEverySubmit ==
    \A k \in Handled :
        /\ hist[k].gets <= 1
        /\ hist[k].gets = 1 => (hist[k].updates = 1 /\ hist[k].endAfter > 0)
        /\ Completed(k) => hist[k].gets = 1
        /\ k < Len(hist) => hist[k + 1].start = hist[k].endAfter

C2_Witness ==
    /\ Len(hist) = 2
    /\ ~hist[1].table
    /\ hist[1].gets = 1
    /\ hist[2].start = hist[1].endAfter
    /\ hist[2].start # hist[1].local

NoTableUpTo(k) == \A j \in 1..k : ~hist[j].table

\* C3 as claimed: in a document without tables the cursor held locally at the
\* end of a page's compilation equals the remote document's end offset after
\* the page's batch
C3_LocalCursorEqualsRemoteEnd ==
    \A k \in Handled :
        (NoTableUpTo(k) /\ Applied(k)) => hist[k].local = hist[k].endAfter

\* C3 amended: in a document without tables the cursor held locally at the end
\* of a page's compilation equals the remote end offset after the page's batch
\* on the last page and is one less on every other page, whose page break is
\* emitted without advancing the cursor
C3_LocalCursorUpToPageBreak ==
    \A k \in Handled :
        (NoTableUpTo(k) /\ Applied(k)) =>
            hist[k].local + (IF k < numPages THEN 1 ELSE 0) = hist[k].endAfter

C3_Witness ==
    /\ numPages = 2
    /\ Len(hist) = 2
    /\ NoTableUpTo(2)
    /\ Applied(2)
    /\ hist[1].local > hist[1].start + 1
    /\ hist[1].local + 1 = hist[1].endAfter
    /\ hist[2].local > hist[2].start + 1
    /\ hist[2].local = hist[2].endAfter

\* the cell inserts of the batch: the text inserts emitted by table elements
CellInserts == {j \in Commands : origin[j] > 0 /\ IsTable(page[origin[j]])
                                 /\ requests[j].op = "insertText"}
TableCommandOf(k) == requests[CHOOSE j \in CommandsOf(k) : requests[j].op = "insertTable"]

\* C4: every cell insert of a table lies in
\* [table_start, table_start + 4 + rows*(cols*2+1)) and no two cell inserts of
\* one page batch have the same offset
C4_CellOffsetsInRangeAndDistinct ==
    /\ \A j \in CellInserts :
         LET t == TableCommandOf(origin[j])
         IN  /\ requests[j].index >= t.index
             /\ requests[j].index < t.index + 4 + t.rows * (t.columns * 2 + 1)
    /\ \A j1, j2 \in CellInserts : j1 # j2 => requests[j1].index # requests[j2].index

\* C5: the cell inserts of one table are emitted from the highest offset down,
\* so that each is applied, in batch order, at the still empty paragraph of a
\* cell, which no earlier insert has shifted
C5_CellsEmittedHighestFirst ==
    /\ \A j1, j2 \in CellInserts :
         (origin[j1] = origin[j2] /\ j1 < j2) => requests[j1].index > requests[j2].index
    /\ pc = "submit" =>
         \A j \in CellInserts :
             LET doc == ApplyBatch(remote, SubSeq(requests, 1, j - 1))
             IN  /\ doc[requests[j].index - 1] = "[cell]"
                 /\ doc[requests[j].index] = NL

C5_Witness ==
    /\ pc = "submit"
    /\ \E j1, j2 \in CellInserts :
         /\ origin[j1] = origin[j2]
         /\ j1 < j2
         /\ requests[j1].index > requests[j2].index + 2

\* an element that emits commands as text: not a table, content not blank
IsText(e) == ~IsTable(e) /\ ~AllWhite(Normalize(e))

RECURSIVE TextLengthBefore(_, _)
\* the characters the text elements before position k insert
TextLengthBefore(structure, k) ==
    IF k <= 1 THEN 0
    ELSE TextLengthBefore(structure, k - 1)
         + (IF IsText(structure[k - 1]) THEN Len(Normalize(structure[k - 1])) + 1 ELSE 0)

\* the cursor at which the element at position k of the page in hand is compiled
CursorAt(k) == hist[Len(hist)].start + 1 + TextLengthBefore(page, k)

GridOf(e) == Decompose(e.md)
GridCells(G) == {rc \in (1..Len(G)) \X (1..NumCols(G)) :
                    rc[2] <= Len(G[rc[1]]) /\ G[rc[1]][rc[2]] # <<>>}
EmitsTable(e) == IsTable(e) /\ ~AllWhite(Normalize(e)) /\ GridOf(e) # <<>>

\* C6: a table element with a non-empty grid emits one insert-table at the
\* cursor, with the grid's row count and its longest row's length, and one
\* cell insert per non-empty cell (r, c), at
\* table_start + 4 + r*(cols*2+1) + c*2, and nothing for any other cell
C6_TableCommands ==
    \A k \in 1..Len(page) :
        EmitsTable(page[k]) =>
            LET G == GridOf(page[k])
                cols == NumCols(G)
                ts == CursorAt(k)
                tables == {j \in CommandsOf(k) : requests[j].op = "insertTable"}
                cells == {j \in CommandsOf(k) : requests[j].op = "insertText"}
            IN  /\ Cardinality(tables) = 1
                /\ \A j \in tables : requests[j] = InsertTable(Len(G), cols, ts)
                /\ CommandsOf(k) = tables \cup cells
                /\ Cardinality(cells) = Cardinality(GridCells(G))
                /\ \A rc \in GridCells(G) :
                     \E j \in cells :
                        /\ requests[j].text = G[rc[1]][rc[2]]
                        /\ requests[j].index
                             = ts + 4 + (rc[1] - 1) * (cols * 2 + 1) + (rc[2] - 1) * 2

C6_Witness ==
    /\ pc = "submit"
    /\ page = <<pAB, tABCD>>
    /\ hist[Len(hist)].start = 1
    /\ SubSeq(requests, 5, 9)
         = <<InsertTable(2, 2, 5), InsertText(sD, 16), InsertText(sC, 14),
             InsertText(sB, 11), InsertText(sA, 9)>>

C6_WitnessJagged ==
    /\ pc = "submit"
    /\ page = <<tTrail>>
    /\ GridOf(tTrail) = <<<<sA, sB>>, <<<<>>, sD, sE>>>>
    /\ numPages = 1
    /\ requests = <<InsertText(<<NL>>, 1), InsertTable(2, 3, 2), InsertText(sE, 17),
                    InsertText(sD, 15), InsertText(sB, 8), InsertText(sA, 6)>>

RECURSIVE DropBlank(_)
\* the page without its elements of empty or whitespace-only content
DropBlank(structure) ==
    IF structure = <<>> THEN <<>>
    ELSE IF AllWhite(Normalize(Head(structure))) THEN DropBlank(Tail(structure))
         ELSE <<Head(structure)>> \o DropBlank(Tail(structure))

\* C7: an element of any type whose content is empty or only whitespace once
\* '&nbsp;' is replaced emits no command and leaves the cursor alone: the batch
\* and the cursor are those of the page without it
C7_BlankElementIsAbsent ==
    hist # <<>> =>
        LET cur == hist[Len(hist)]
            without == CompilePage(cur.start, DropBlank(page), ~(Len(hist) < numPages))
        IN  /\ \A k \in 1..Len(page) :
                 AllWhite(Normalize(page[k])) => CommandsOf(k) = {}
            /\ requests = without.requests
            /\ cur.local = without.current_index

C7_Witness ==
    /\ pc = "submit"
    /\ page = <<pNbsp, pAB>>
    /\ requests[2] = InsertText(<<"A", "B", NL>>, hist[Len(hist)].start + 1)

C7_WitnessTable ==
    /\ pc = "submit"
    /\ page = <<tBlank>>
    /\ Len(requests) <= 2

ParagraphStylesOf(k) == {j \in CommandsOf(k) : requests[j].op = "updateParagraphStyle"}
IsHeading(e) == Get(e, "type", "None") = "heading"
SpacingRecognized(e) == Get(e, "spacingAfter", "None") \in {"small", "medium", "large"}

\* C8 as claimed: a heading or paragraph gets a paragraph-style update when it
\* is a heading, declares an alignment other than 'left' or declares a
\* recognized spacing, and gets none otherwise
C8_StyleOmittedForDefaultAlignment ==
    \A k \in 1..Len(page) :
        IsText(page[k]) =>
            (ParagraphStylesOf(k) # {}
               <=> \/ IsHeading(page[k])
                   \/ ("align" \in page[k].keys /\ page[k].align # sLeft)
                   \/ SpacingRecognized(page[k]))

AlignmentNames == {sLEFT, sRIGHT, sSTART, sEND, sCENTER, sJUSTIFIED}

\* C8 amended: a heading or paragraph gets one paragraph-style update when it is
\* a heading, when its alignment ('left' if absent), in upper case, is one of
\* LEFT, RIGHT, START, END, CENTER, JUSTIFIED, or when it declares a recognized
\* spacing, and none otherwise; so a paragraph "Hello" without alignment and
\* spacing on a one-page document yields the newline at 1, the insert-text at
\* 2, a paragraph-style update setting alignment START over [2,8) and the
\* text-style update over [2,8)
C8_StyleEmittedForKnownAlignment ==
    /\ \A k \in 1..Len(page) :
         IsText(page[k]) =>
            /\ Cardinality(ParagraphStylesOf(k)) <= 1
            /\ ParagraphStylesOf(k) # {}
                 <=> \/ IsHeading(page[k])
                     \/ Upper(Get(page[k], "align", sLeft)) \in AlignmentNames
                     \/ SpacingRecognized(page[k])
    /\ (page = <<Paragraph(sHello)>> /\ Len(hist) = 1 /\ numPages = 1) =>
         requests = <<InsertText(<<NL>>, 1),
                      InsertText(sHello \o <<NL>>, 2),
                      [op |-> "updateParagraphStyle", startIndex |-> 2, endIndex |-> 8,
                       paragraphStyle |-> [alignment |-> sSTART],
                       fields |-> <<"alignment">>],
                      [op |-> "updateTextStyle", startIndex |-> 2, endIndex |-> 8,
                       fontSize |-> 10, fields |-> <<"fontSize">>]>>

C8_Witness ==
    /\ pc = "submit"
    /\ page = <<Paragraph(sHello)>>
    /\ numPages = 1
    /\ ParagraphStylesOf(1) # {}

C8_WitnessOmitted ==
    /\ pc = "submit"
    /\ Len(page) = 1
    /\ IsText(page[1])
    /\ ParagraphStylesOf(1) = {}

Range(f) == {f[x] : x \in DOMAIN f}

\* the alignment the claim gives: START for left, END for right, CENTER for
\* center, JUSTIFIED for justified, nothing for any other value
ClaimedAlignment(e) ==
    LET a == Get(e, "align", sLeft)
    IN  IF a = sLeft THEN <<sSTART>>
        ELSE IF a = <<"r","i","g","h","t">> THEN <<sEND>>
        ELSE IF a = <<"c","e","n","t","e","r">> THEN <<sCENTER>>
        ELSE IF a = <<"j","u","s","t","i","f","i","e","d">> THEN <<sJUSTIFIED>>
        ELSE <<>>

\* the alignment the amended claim gives: the value is read in upper case, and
\* START and END are taken as they are
AmendedAlignment(e) ==
    LET a == Upper(Get(e, "align", sLeft))
    IN  IF a \in {sLEFT, sSTART} THEN <<sSTART>>
        ELSE IF a \in {sRIGHT, sEND} THEN <<sEND>>
        ELSE IF a = sCENTER THEN <<sCENTER>>
        ELSE IF a = sJUSTIFIED THEN <<sJUSTIFIED>>
        ELSE <<>>

\* the contents of the paragraph-style updates, given the alignment expected
StyleContents(Alignment(_)) ==
    \A k \in 1..Len(page) :
        \A j \in ParagraphStylesOf(k) :
            LET e == page[k]
                ps == requests[j].paragraphStyle
            IN  /\ ("namedStyleType" \in DOMAIN ps) = IsHeading(e)
                /\ IsHeading(e) =>
                     ps.namedStyleType
                       = <<"HEADING_", IF "level" \in e.keys THEN e.level ELSE 1>>
                /\ ("alignment" \in DOMAIN ps) = (Alignment(e) # <<>>)
                /\ Alignment(e) # <<>> => ps.alignment = Alignment(e)[1]
                /\ ("spaceBelow" \in DOMAIN ps) = SpacingRecognized(e)
                /\ SpacingRecognized(e) =>
                     ps.spaceBelow = (CASE e.spacingAfter = "small" -> 8
                                        [] e.spacingAfter = "medium" -> 12
                                        [] e.spacingAfter = "large" -> 16)
                /\ Range(requests[j].fields) = DOMAIN ps
                /\ Len(requests[j].fields) = Cardinality(DOMAIN ps)

\* C9 as claimed: the paragraph-style update names the heading level exactly
\* for a heading, the alignment exactly for left, right, center and justified,
\* the space below exactly for small, medium and large, and its field mask
\* lists what was set
C9_StyleContentsAsClaimed == StyleContents(ClaimedAlignment)

\* C9 amended: as claimed, except that the alignment value is compared in upper
\* case and that 'start' and 'end' are accepted too, giving START and END
C9_StyleContentsUpperCased == StyleContents(AmendedAlignment)

C9_Witness ==
    /\ pc = "submit"
    /\ Len(page) = 1
    /\ page[1].type = "heading" /\ page[1].content = sTitle
    /\ Get(page[1], "level", 1) = 2
    /\ \E j \in ParagraphStylesOf(1) :
         /\ requests[j].paragraphStyle
              = [namedStyleType |-> <<"HEADING_", 2>>, alignment |-> sCENTER,
                 spaceBelow |-> 16]
         /\ requests[j].fields = <<"namedStyleType", "alignment", "spaceBelow">>

\* C10: once the remote service has failed in the submit or the query of page
\* k, the request has ended with an error and no document URL, no later page
\* has been compiled or submitted, the failed call was made once, and the
\* remote document is as the last successful submit left it
C10_FailureEndsRequest ==
    \A k \in Handled :
        hist[k].failed =>
            /\ pc = "error"
            /\ response = "HTTPException"
            /\ k = Len(hist)
            /\ i = k - 1
            /\ hist[k].updates = 1
            /\ hist[k].gets <= 1
            /\ \A j \in 1..(k - 1) : hist[j].updates = 1 /\ hist[j].gets = 1 /\ ~hist[j].failed
            /\ Len(remote) = (IF hist[k].gets = 1 THEN hist[k].endAfter ELSE hist[k].start)
            /\ k > 1 => Len(remote) >= hist[k - 1].endAfter

C10_Witness ==
    /\ pc = "error"
    /\ Len(hist) = 2
    /\ hist[2].failed
    /\ hist[2].gets = 0
    /\ hist[1].updates = 1
    /\ Len(remote) = hist[1].endAfter
    /\ Len(remote) > 2

C10_WitnessQuery ==
    /\ pc = "error"
    /\ Len(hist) = 2
    /\ hist[2].failed
    /\ hist[2].gets = 1
    /\ Len(remote) = hist[2].endAfter

\* the commands of element k with a given op
OpsOf(k, op) == {j \in CommandsOf(k) : requests[j].op = op}

\* C13: every page batch starts with the insert of one newline at the page's
\* start cursor s; on a page without table the text element at position k is
\* inserted at s + 1 + the sum of len(content) + 1 over the text elements
\* before it, its text is the content and one newline, and its text-style
\* update sets 10pt over [offset, offset + len(content) + 1)
C13_NewlineAndTextOffsets ==
    hist # <<>> =>
        LET s == hist[Len(hist)].start
        IN  /\ requests # <<>>
            /\ requests[1] = [op |-> "insertText", text |-> <<NL>>, index |-> s]
            /\ origin[1] = 0
            /\ (\A k \in 1..Len(page) : ~IsTable(page[k])) =>
                 \A k \in 1..Len(page) :
                    IsText(page[k]) =>
                        LET content == Normalize(page[k])
                            offset == s + 1 + TextLengthBefore(page, k)
                        IN  /\ Cardinality(OpsOf(k, "insertText")) = 1
                            /\ \A j \in OpsOf(k, "insertText") :
                                 requests[j] = [op |-> "insertText",
                                                text |-> content \o <<NL>>,
                                                index |-> offset]
                            /\ Cardinality(OpsOf(k, "updateTextStyle")) = 1
                            /\ \A j \in OpsOf(k, "updateTextStyle") :
                                 requests[j] = [op |-> "updateTextStyle",
                                                startIndex |-> offset,
                                                endIndex |-> offset + Len(content) + 1,
                                                fontSize |-> 10,
                                                fields |-> <<"fontSize">>]

C13_Witness ==
    /\ pc = "submit"
    /\ page = <<pAB, pAB>>
    /\ hist[Len(hist)].start > 1
    /\ \E j \in OpsOf(2, "insertText") :
         requests[j].index = hist[Len(hist)].start + 4

C13_WitnessEmptyPage ==
    /\ pc = "submit"
    /\ page = <<pNbsp>>
    /\ numPages = 1
    /\ requests = <<InsertText(<<NL>>, 1)>>

C13_WitnessNbsp ==
    /\ pc = "submit"
    /\ page = <<Paragraph(sA \o Nbsp \o sB)>>
    /\ requests[2] = InsertText(<<"A", " ", "B", NL>>, 2)

PageBreaks == {j \in Commands : requests[j].op = "insertPageBreak"}

\* C14: a page's batch holds an insert-page-break exactly when the page is not
\* the last of the document; it is then the last command of the batch, at the
\* cursor reached after the page's elements
C14_PageBreakOnlyBetweenPages ==
    hist # <<>> =>
        /\ (PageBreaks # {}) <=> (Len(hist) < numPages)
        /\ \A j \in PageBreaks :
             /\ j = Len(requests)
             /\ origin[j] = 0
             /\ requests[j].index = hist[Len(hist)].local
             /\ requests[j].index
                  = hist[Len(hist)].start + 1 + TextLengthBefore(page, Len(page) + 1)
        /\ numPages = 1 => PageBreaks = {}

C14_Witness ==
    /\ pc = "submit"
    /\ numPages = 2
    /\ Len(hist) = 1
    /\ page = <<pAB>>
    /\ requests[Len(requests)] = InsertPageBreak(5)

C14_WitnessLast ==
    /\ pc = "submit"
    /\ numPages = 2
    /\ Len(hist) = 2
    /\ page = <<pAB>>
    /\ PageBreaks = {}

\* a table element that reaches the decomposition and yields an empty grid
EmptyGridTable(e) == IsTable(e) /\ ~AllWhite(Normalize(e)) /\ GridOf(e) = <<>>

RECURSIVE DropEmptyGrid(_)
\* the page without its table elements of empty grid
DropEmptyGrid(structure) ==
    IF structure = <<>> THEN <<>>
    ELSE IF EmptyGridTable(Head(structure)) THEN DropEmptyGrid(Tail(structure))
         ELSE <<Head(structure)>> \o DropEmptyGrid(Tail(structure))

\* C17: a table element whose grid is empty once the rows without cells are
\* dropped emits no insert-table and no cell insert and leaves the cursor
\* alone, and a page whose only tables are such has no table in its batch
C17_EmptyGridEmitsNothing ==
    hist # <<>> =>
        LET cur == hist[Len(hist)]
            without == CompilePage(cur.start, DropEmptyGrid(page), ~(Len(hist) < numPages))
        IN  /\ \A k \in 1..Len(page) : EmptyGridTable(page[k]) => CommandsOf(k) = {}
            /\ requests = without.requests
            /\ cur.local = without.current_index
            /\ (\A k \in 1..Len(page) : IsTable(page[k]) => EmptyGridTable(page[k]))
                 => (~cur.table /\ \A j \in Commands : requests[j].op # "insertTable")

C17_Witness ==
    /\ pc = "submit"
    /\ page = <<tNone>>
    /\ numPages = 1
    /\ requests = <<InsertText(<<NL>>, 1)>>
    /\ current_index = 2
    /\ ~hist[1].table

C17_WitnessEmptyRow ==
    /\ pc = "submit"
    /\ page = <<tEmptyRow>>
    /\ ~hist[Len(hist)].table

\* what an insertion adds to the document
InsertedLength(r) ==
    IF r.op = "insertText" THEN Len(r.text)
    ELSE IF r.op = "insertTable" THEN 2 + r.rows * (r.columns * 2 + 1)
    ELSE IF r.op = "insertPageBreak" THEN 1
    ELSE 0

RECURSIVE FinalPosition(_, _)
\* where the text put at position pos ends up once the commands from j on are
\* applied, each insertion at or before it shifting it
FinalPosition(pos, j) ==
    IF j > Len(requests) THEN pos
    ELSE FinalPosition(IF requests[j].op \in {"insertText", "insertTable", "insertPageBreak"}
                          /\ requests[j].index <= pos
                       THEN pos + InsertedLength(requests[j]) ELSE pos,
                       j + 1)

\* the first command of element k, and where what it inserts ends up
FirstCommandOf(k) == CHOOSE j \in CommandsOf(k) : \A j2 \in CommandsOf(k) : j <= j2
PlaceOf(k) == FinalPosition(requests[FirstCommandOf(k)].index, FirstCommandOf(k) + 1)

\* C18: once a page's batch is applied in order, what its elements inserted
\* stands in the remote document in the order of the page's structure, and the
\* page break after all of it
C18_DocumentOrder ==
    /\ \A k1, k2 \in 1..Len(page) :
         (k1 < k2 /\ CommandsOf(k1) # {} /\ CommandsOf(k2) # {}) => PlaceOf(k1) < PlaceOf(k2)
    /\ \A b \in PageBreaks :
         \A k \in 1..Len(page) :
            CommandsOf(k) # {} => PlaceOf(k) < FinalPosition(requests[b].index, b + 1)

\* order kept when no table comes before another element or the page break
C18_OrderWithoutEarlierTable ==
    (\A j \in Commands : requests[j].op = "insertTable" =>
         \A j2 \in Commands : (j2 > j) => origin[j2] = origin[j])
    => C18_DocumentOrder

RECURSIVE RowsBetweenMarkers(_, _, _, _)
\* the grid of the claim: a row per tr_open ... tr_close pair, holding the
\* inline tokens met while the row is open
RowsBetweenMarkers(tokens, open, row, rows) ==
    IF tokens = <<>> THEN rows
    ELSE LET t == Head(tokens)
         IN  IF t.type = "tr_open" THEN RowsBetweenMarkers(Tail(tokens), TRUE, <<>>, rows)
             ELSE IF t.type = "tr_close"
                  THEN RowsBetweenMarkers(Tail(tokens), FALSE, <<>>,
                                          IF open /\ row # <<>> THEN Append(rows, row) ELSE rows)
             ELSE IF t.type = "inline" /\ open
                  THEN RowsBetweenMarkers(Tail(tokens), open, Append(row, t.content), rows)
             ELSE RowsBetweenMarkers(Tail(tokens), open, row, rows)

\* C19: the grid of a table holds, row by row, the inline tokens met between a
\* tr_open and its tr_close, in token order; an inline token outside a row adds
\* no cell
C19_CellsOnlyFromOpenRows ==
    \A k \in 1..Len(page) :
        (IsTable(page[k]) /\ ~AllWhite(Normalize(page[k]))) =>
            Decompose(page[k].md) = RowsBetweenMarkers(page[k].md, FALSE, <<>>, <<>>)

\* the same for the token streams without an inline token after a tr_close
C19_HoldsBeforeRowClose ==
    \A k \in 1..Len(page) :
        (IsTable(page[k]) /\ ~AllWhite(Normalize(page[k])) /\ page[k] # tTrail) =>
            Decompose(page[k].md) = RowsBetweenMarkers(page[k].md, FALSE, <<>>, <<>>)

\* the endpoint with its steps taken as long as one can be: every call returns
\* or raises
LiveSpec == Spec /\ WF_vars(Next)

\* what holds of the calls made so far
SubmittedInOrder ==
    /\ Len(hist) <= numPages
    /\ pc \in {"submit", "get"} => Len(hist) = i + 1
    /\ pc \in {"loop", "done"} => Len(hist) = i
    /\ \A k \in Handled :
         /\ hist[k].updates <= 1
         /\ hist[k].gets <= hist[k].updates
         /\ k < Len(hist) =>
              /\ hist[k].updates = 1 /\ hist[k].gets = 1 /\ ~hist[k].failed
              /\ hist[k + 1].start = hist[k].endAfter
    /\ response = "documentUrl" =>
         /\ pc = "done"
         /\ Len(hist) = numPages
         /\ \A k \in Handled : hist[k].updates = 1 /\ hist[k].gets = 1 /\ ~hist[k].failed

\* C15: each page's batch is submitted once, page after page; a page is
\* compiled only when the page before has been submitted and its end offset
\* read back; the document URL is returned only once every page has been
\* submitted, and it is returned in the end unless a remote call fails
C15_SubmitOncePerPageThenReturn ==
    /\ []SubmittedInOrder
    /\ <>(response = "documentUrl" \/ pc = "error")

C15_Witness ==
    /\ response = "documentUrl"
    /\ numPages = 2
    /\ Len(hist) = 2
    /\ hist[1].updates = 1 /\ hist[2].updates = 1
    /\ hist[2].start = hist[1].endAfter

\* ------------------------------------------------------------ process_and_stream_pdf
MaxTotalPages == 5

\* for i in range(0, total_pages, 4)
BatchSize == 4

Min(a, b) == IF a <= b THEN a ELSE b

\* every page at once
BatchPagesAll(start, total) == start..(total - 1)

\* the page_nums i + j for j in range(min(4, total_pages - i))
BatchPages(start, total) == {start + j : j \in 0..(Min(BatchSize, total - start) - 1)}

\* what the structuring oracle answers for a page
OracleStructure == <<[type |-> "paragraph", content |-> "text"]>>

\* the value returned when the structuring call raises
StructuringFailed == <<[type |-> "paragraph", content |-> "[Structuring failed]"]>>

\* the value perform_ocr_on_image_async returns when the OCR call raises
OcrFailed == "no blocks"

PageResult(page_num, structure, image) ==
    [pageNumber |-> page_num + 1, structure |-> structure, imageDataUrl |-> image]

\* the except clause of process_single_page_task
PageErrorResult(page_num) ==
    PageResult(page_num,
               <<[type |-> "paragraph", content |-> "[Error processing this page]"]>>, "")

NoTask == [st |-> "none", fault |-> "none", result |-> <<>>]
ReadyTask == [st |-> "ready", fault |-> "none", result |-> <<>>]
DoneTask(fault, result) == [st |-> "done", fault |-> fault, result |-> <<result>>]

\* a task returns: its result is kept and its page_num joins the completion order
Finish(page_num, fault, result) ==
    /\ tasks' = [tasks EXCEPT ![page_num] = DoneTask(fault, result)]
    /\ doneOrder' = Append(doneOrder, page_num)

\* structure = await get_structure_from_ocr_data_async(...) if ocr_blocks else []
AfterBlocks(page_num, fault, blocks) ==
    IF blocks = "blocks"
    THEN /\ tasks' = [tasks EXCEPT ![page_num].st = "structure"]
         /\ UNCHANGED doneOrder
    ELSE Finish(page_num, fault, PageResult(page_num, <<>>, "image"))

StreamInit ==
    /\ pc = "idle"
    /\ numPages = 0
    /\ i = 0
    /\ page = <<>>
    /\ requests = <<>>
    /\ origin = <<>>
    /\ current_index = 0
    /\ remote = <<>>
    /\ response = "none"
    /\ hist = <<>>
    /\ spc = "open"
    /\ total_pages \in 0..MaxTotalPages
    /\ batch_start = 0
    /\ tasks = [p \in 0..(total_pages - 1) |-> NoTask]
    /\ doneOrder = <<>>
    /\ all_pages_data = <<>>
    /\ events = <<>>

\* fitz.open(...) returns; all_pages_data = []
OpenOk ==
    /\ spc = "open"
    /\ spc' = "loop"
    /\ UNCHANGED <<total_pages, batch_start, tasks, doneOrder, all_pages_data, events>>
    /\ UNCHANGED docVars

\* file.read() or fitz.open(...) raises: the outer except yields the error event
OpenFail ==
    /\ spc = "open"
    /\ spc' = "failed"
    /\ events' = Append(events, [status |-> "error"])
    /\ UNCHANGED <<total_pages, batch_start, tasks, doneOrder, all_pages_data>>
    /\ UNCHANGED docVars

\* batch_tasks = [...]; asyncio.gather(*batch_tasks) starts the batch's tasks
StartBatch ==
    /\ spc = "loop"
    /\ batch_start < total_pages
    /\ tasks' = [p \in DOMAIN tasks |->
                   IF p \in BatchPages(batch_start, total_pages) THEN ReadyTask ELSE tasks[p]]
    /\ doneOrder' = <<>>
    /\ spc' = "gather"
    /\ UNCHANGED <<total_pages, batch_start, all_pages_data, events>>
    /\ UNCHANGED docVars

\* a task runs up to its first await: the pixmap, the text blocks of the page
TaskRender(p) ==
    /\ spc = "gather"
    /\ tasks[p].st = "ready"
    /\ \/ Finish(p, "raster", PageErrorResult(p))
       \/ \E blocks \in {"blocks", "no blocks"} : AfterBlocks(p, "none", blocks)
       \/ /\ tasks' = [tasks EXCEPT ![p].st = "ocr"]
          /\ UNCHANGED doneOrder
    /\ UNCHANGED <<spc, total_pages, batch_start, all_pages_data, events>>
    /\ UNCHANGED docVars

\* await perform_ocr_on_image_async(...) returns blocks, or none
OcrReturns(p) ==
    /\ spc = "gather"
    /\ tasks[p].st = "ocr"
    /\ \E blocks \in {"blocks", "no blocks"} : AfterBlocks(p, "none", blocks)
    /\ UNCHANGED <<spc, total_pages, batch_start, all_pages_data, events>>
    /\ UNCHANGED docVars

\* the OCR call raises inside perform_ocr_on_image_async
OcrFails(p) ==
    /\ spc = "gather"
    /\ tasks[p].st = "ocr"
    /\ AfterBlocks(p, "ocr", OcrFailed)
    /\ UNCHANGED <<spc, total_pages, batch_start, all_pages_data, events>>
    /\ UNCHANGED docVars

\* await get_structure_from_ocr_data_async(...) returns the oracle's answer
StructureReturns(p) ==
    /\ spc = "gather"
    /\ tasks[p].st = "structure"
    /\ Finish(p, "none", PageResult(p, OracleStructure, "image"))
    /\ UNCHANGED <<spc, total_pages, batch_start, all_pages_data, events>>
    /\ UNCHANGED docVars

\* the structuring call raises inside get_structure_from_ocr_data_async
StructureFails(p) ==
    /\ spc = "gather"
    /\ tasks[p].st = "structure"
    /\ Finish(p, "structure", PageResult(p, StructuringFailed, "image"))
    /\ UNCHANGED <<spc, total_pages, batch_start, all_pages_data, events>>
    /\ UNCHANGED docVars

\* the page_nums of a batch in the order the tasks were passed
BatchOrder(start, total) ==
    [j \in 1..Cardinality(BatchPages(start, total)) |-> start + j - 1]

\* results in the order the tasks completed
GatherAsCompleted(order, done) == [j \in 1..Len(done) |-> tasks[done[j]].result[1]]

\* results = await asyncio.gather(*batch_tasks): in the order of batch_tasks
Gather(order, done) == [j \in 1..Len(order) |-> tasks[order[j]].result[1]]

\* the gather returns; the results are added and the progress event is yielded
GatherReturns ==
    /\ spc = "gather"
    /\ \A p \in BatchPages(batch_start, total_pages) : tasks[p].st = "done"
    /\ all_pages_data'
         = all_pages_data \o Gather(BatchOrder(batch_start, total_pages), doneOrder)
    /\ events' = Append(events, [status |-> "processing", page |-> Len(all_pages_data'),
                                 total |-> total_pages])
    /\ batch_start' = batch_start + BatchSize
    /\ spc' = "loop"
    /\ UNCHANGED <<total_pages, tasks, doneOrder>>
    /\ UNCHANGED docVars

\* after the last batch the complete event is yielded
Complete ==
    /\ spc = "loop"
    /\ batch_start >= total_pages
    /\ events' = Append(events, [status |-> "complete", data |-> all_pages_data])
    /\ spc' = "finished"
    /\ UNCHANGED <<total_pages, batch_start, tasks, doneOrder, all_pages_data>>
    /\ UNCHANGED docVars

StreamNext ==
    \/ OpenOk
    \/ OpenFail
    \/ StartBatch
    \/ \E p \in DOMAIN tasks : TaskRender(p)
    \/ \E p \in DOMAIN tasks : OcrReturns(p)
    \/ \E p \in DOMAIN tasks : OcrFails(p)
    \/ \E p \in DOMAIN tasks : StructureReturns(p)
    \/ \E p \in DOMAIN tasks : StructureFails(p)
    \/ GatherReturns
    \/ Complete

StreamSpec == StreamInit /\ [][StreamNext]_vars

\* ------------------------------------------------------------ properties of the stream
CompleteEvents == {k \in 1..Len(events) : events[k].status = "complete"}

Faulted == {p \in DOMAIN tasks : tasks[p].st = "done" /\ tasks[p].fault # "none"}

\* C11: whatever order the tasks of a batch complete in, the pages collected so far are
\* numbered 1, 2, ... in order, and the data of the complete event lists the pages
\* 1..N in ascending order, each exactly once.
C11_ResultsInPageOrder ==
    /\ \A j \in 1..Len(all_pages_data) : all_pages_data[j].pageNumber = j
    /\ \A k \in CompleteEvents :
          /\ Len(events[k].data) = total_pages
          /\ \A j \in 1..total_pages : events[k].data[j].pageNumber = j

\* the tasks of the last batch completed in descending order and the stream completed
C11_Witness ==
    /\ spc = "finished"
    /\ total_pages = 3
    /\ doneOrder = <<2, 1, 0>>
    /\ CompleteEvents # {}

\* C12: a page whose rasterization, OCR or structuring failed has a single placeholder
\* paragraph as its structure; the other pages are processed, and the stream ends
\* with a complete event holding one entry per page, not with an error event.
C12_FailureIsPlaceholder ==
    /\ \A p \in Faulted :
          /\ Len(tasks[p].result[1].structure) = 1
          /\ tasks[p].result[1].structure[1].type = "paragraph"
    /\ Faulted # {} => \A k \in 1..Len(events) : events[k].status # "error"
    /\ (spc = "finished" /\ Faulted # {}) =>
          /\ events[Len(events)].status = "complete"
          /\ Len(events[Len(events)].data) = total_pages
          /\ \A q \in DOMAIN tasks : tasks[q].st = "done"

InFlight == {p \in DOMAIN tasks : tasks[p].st \in {"ready", "ocr", "structure"}}

Started == {p \in DOMAIN tasks : tasks[p].st # "none"}

\* the progress event of the k-th batch carries the cumulative count of finished pages
ProgressOf(k) ==
    [status |-> "processing", page |-> IF 4 * k <= total_pages THEN 4 * k ELSE total_pages,
     total |-> total_pages]

\* C16: at most 4 page tasks are in flight; a task of batch b+1 is started only when
\* every task of the batches up to b has completed and their progress events, carrying
\* the cumulative page counts, have been reported; the complete event comes last,
\* after every task and every progress event.
C16_BatchesOfFourInSequence ==
    /\ Cardinality(InFlight) <= 4
    /\ \A p \in Started :
          /\ \A q \in 0..(4 * (p \div 4) - 1) : tasks[q].st = "done"
          /\ Len(events) >= p \div 4
          /\ \A k \in 1..(p \div 4) : events[k] = ProgressOf(k)
    /\ \A k \in CompleteEvents :
          /\ k = Len(events)
          /\ k = (total_pages + 3) \div 4 + 1
          /\ \A q \in DOMAIN tasks : tasks[q].st = "done"
          /\ \A b \in 1..(k - 1) : events[b] = ProgressOf(b)

\* the second batch has started after a first batch of four was reported
C16_Witness ==
    /\ total_pages = 5
    /\ tasks[4].st = "ready"
    /\ events = <<ProgressOf(1)>>
    /\ events[1].page = 4

\* four tasks of one batch are in flight together
C16_WitnessFourInFlight == Cardinality(InFlight) = 4

====
